---- MODULE Spec2Model ----
(***************************************************************************)
(* Model of the operational-transform server of live-edits-server:        *)
(*   src/operational_transform/ot.py  Operation, transform, DocumentModel, *)
(*                                    OTServer                             *)
(*   src/main.py                      client_op (task dispatch)            *)
(*                                                                         *)
(* Text is a sequence of one-character strings.  Python's None is the      *)
(* value None below.  The asyncio event loop runs one task at a time and   *)
(* switches tasks only at an await, so one action is one run of a task     *)
(* from one suspension point to the next.                                  *)
(***************************************************************************)
EXTENDS Integers, Sequences, FiniteSets, TLC

(* ------------------------------ bounds --------------------------------- *)

\* number of client_op messages the transport delivers
MaxOps == 2
\* largest position a client puts in a message
MaxPos == 1
\* longest base document of the transform law check
MaxDocLen == 3

(* ---------------------------- value domains ---------------------------- *)

\* Python's None (the default of op_id)
None == 0

Min(a, b) == IF a < b THEN a ELSE b

Max(a, b) == IF a > b THEN a ELSE b

\* OTServer.__init__: DocumentModel("Hello OT!")
InitialText == <<"H", "e", "l", "l", "o", " ", "O", "T", "!">>

\* class Operation: the six attributes set by __init__
Operation(op_type, position, text, length, base_version, op_id) ==
    [op_type |-> op_type, position |-> position, text |-> text,
     length |-> length, base_version |-> base_version, op_id |-> op_id]

(* --------------------------- Python slicing ---------------------------- *)

\* the index a slice bound i denotes in a sequence of length n:
\* a negative bound counts from the end, and the result is clamped to 0..n
SliceIndex(n, i) == IF i < 0 THEN Max(n + i, 0) ELSE Min(i, n)

\* s[:i]
SliceTo(s, i) == SubSeq(s, 1, SliceIndex(Len(s), i))

\* s[i:]
SliceFrom(s, i) == SubSeq(s, SliceIndex(Len(s), i) + 1, Len(s))

(* ------------------------------ transform ------------------------------ *)

\* the copy transform makes of each argument: op_id is not passed on,
\* so it takes the constructor's default
CopyOp(op) ==
    Operation(op.op_type, op.position, op.text, op.length, op.base_version, None)

RECURSIVE transform(_, _)
\* transform moving the later of two inserts right by one character
\* instead of by the length of the earlier text
transform_shifts_one(opA, opB) ==
    LET A == CopyOp(opA)
        B == CopyOp(opB)
    IN  IF A.op_type = "insert" /\ B.op_type = "insert" THEN
            IF A.position < B.position
            THEN <<A, [B EXCEPT !.position = B.position + 1]>>
            ELSE IF A.position > B.position
            THEN <<[A EXCEPT !.position = A.position + 1], B>>
            ELSE <<A, [B EXCEPT !.position = B.position + Len(A.text)]>>
        ELSE IF A.op_type = "insert" /\ B.op_type = "delete" THEN
            IF A.position <= B.position
            THEN <<A, [B EXCEPT !.position = B.position + Len(A.text)]>>
            ELSE LET shift == Min(A.position - B.position, B.length)
                 IN  <<[A EXCEPT !.position = A.position - shift], B>>
        ELSE IF A.op_type = "delete" /\ B.op_type = "insert" THEN
            LET r == transform(B, A)
                Bprime == r[1]
                Aprime == r[2]
            IN  <<Aprime, Bprime>>
        ELSE IF A.op_type = "delete" /\ B.op_type = "delete" THEN
            IF A.position < B.position
            THEN LET overlap == (A.position + A.length) - B.position
                 IN  IF overlap > 0
                     THEN <<A, [B EXCEPT !.position = A.position,
                                         !.length = B.length + overlap]>>
                     ELSE <<A, B>>
            ELSE LET overlap == (B.position + B.length) - A.position
                 IN  IF overlap > 0
                     THEN <<[A EXCEPT !.position = B.position,
                                      !.length = A.length + overlap], B>>
                     ELSE <<A, B>>
        ELSE <<A, B>>

\* transform moving an insert left by the whole deleted length, also when
\* the insert point is inside the deleted range
transform_shifts_whole_delete(opA, opB) ==
    LET A == CopyOp(opA)
        B == CopyOp(opB)
    IN  IF A.op_type = "insert" /\ B.op_type = "insert" THEN
            IF A.position < B.position
            THEN <<A, [B EXCEPT !.position = B.position + Len(A.text)]>>
            ELSE IF A.position > B.position
            THEN <<[A EXCEPT !.position = A.position + Len(B.text)], B>>
            ELSE <<A, [B EXCEPT !.position = B.position + Len(A.text)]>>
        ELSE IF A.op_type = "insert" /\ B.op_type = "delete" THEN
            IF A.position <= B.position
            THEN <<A, [B EXCEPT !.position = B.position + Len(A.text)]>>
            ELSE LET shift == B.length
                 IN  <<[A EXCEPT !.position = A.position - shift], B>>
        ELSE IF A.op_type = "delete" /\ B.op_type = "insert" THEN
            LET r == transform(B, A)
                Bprime == r[1]
                Aprime == r[2]
            IN  <<Aprime, Bprime>>
        ELSE IF A.op_type = "delete" /\ B.op_type = "delete" THEN
            IF A.position < B.position
            THEN LET overlap == (A.position + A.length) - B.position
                 IN  IF overlap > 0
                     THEN <<A, [B EXCEPT !.position = A.position,
                                         !.length = B.length + overlap]>>
                     ELSE <<A, B>>
            ELSE LET overlap == (B.position + B.length) - A.position
                 IN  IF overlap > 0
                     THEN <<[A EXCEPT !.position = B.position,
                                      !.length = A.length + overlap], B>>
                     ELSE <<A, B>>
        ELSE <<A, B>>

\* transform moving the later insert A right by the length of its own text
\* instead of the length of B's
transform_shifts_by_own_length(opA, opB) ==
    LET A == CopyOp(opA)
        B == CopyOp(opB)
    IN  IF A.op_type = "insert" /\ B.op_type = "insert" THEN
            IF A.position < B.position
            THEN <<A, [B EXCEPT !.position = B.position + Len(A.text)]>>
            ELSE IF A.position > B.position
            THEN <<[A EXCEPT !.position = A.position + Len(A.text)], B>>
            ELSE <<A, [B EXCEPT !.position = B.position + Len(A.text)]>>
        ELSE IF A.op_type = "insert" /\ B.op_type = "delete" THEN
            IF A.position <= B.position
            THEN <<A, [B EXCEPT !.position = B.position + Len(A.text)]>>
            ELSE LET shift == Min(A.position - B.position, B.length)
                 IN  <<[A EXCEPT !.position = A.position - shift], B>>
        ELSE IF A.op_type = "delete" /\ B.op_type = "insert" THEN
            LET r == transform(B, A)
                Bprime == r[1]
                Aprime == r[2]
            IN  <<Aprime, Bprime>>
        ELSE IF A.op_type = "delete" /\ B.op_type = "delete" THEN
            IF A.position < B.position
            THEN LET overlap == (A.position + A.length) - B.position
                 IN  IF overlap > 0
                     THEN <<A, [B EXCEPT !.position = A.position,
                                         !.length = B.length + overlap]>>
                     ELSE <<A, B>>
            ELSE LET overlap == (B.position + B.length) - A.position
                 IN  IF overlap > 0
                     THEN <<[A EXCEPT !.position = B.position,
                                      !.length = A.length + overlap], B>>
                     ELSE <<A, B>>
        ELSE <<A, B>>

\* transform(opA, opB) -> (A', B')
transform(opA, opB) ==
    LET A == CopyOp(opA)
        B == CopyOp(opB)
    IN  IF A.op_type = "insert" /\ B.op_type = "insert" THEN
            IF A.position < B.position
            THEN <<A, [B EXCEPT !.position = B.position + Len(A.text)]>>
            ELSE IF A.position > B.position
            THEN <<[A EXCEPT !.position = A.position + Len(B.text)], B>>
            ELSE <<A, [B EXCEPT !.position = B.position + Len(A.text)]>>
        ELSE IF A.op_type = "insert" /\ B.op_type = "delete" THEN
            IF A.position <= B.position
            THEN <<A, [B EXCEPT !.position = B.position + Len(A.text)]>>
            ELSE LET shift == Min(A.position - B.position, B.length)
                 IN  <<[A EXCEPT !.position = A.position - shift], B>>
        ELSE IF A.op_type = "delete" /\ B.op_type = "insert" THEN
            LET r == transform(B, A)
                Bprime == r[1]
                Aprime == r[2]
            IN  <<Aprime, Bprime>>
        ELSE IF A.op_type = "delete" /\ B.op_type = "delete" THEN
            IF A.position < B.position
            THEN LET overlap == (A.position + A.length) - B.position
                 IN  IF overlap > 0
                     THEN <<A, [B EXCEPT !.position = A.position,
                                         !.length = B.length + overlap]>>
                     ELSE <<A, B>>
            ELSE LET overlap == (B.position + B.length) - A.position
                 IN  IF overlap > 0
                     THEN <<[A EXCEPT !.position = B.position,
                                      !.length = A.length + overlap], B>>
                     ELSE <<A, B>>
        ELSE <<A, B>>

\* the argument objects as transform's assignments leave them, were A and B
\* the arguments themselves and not copies
transform_args_aliased(opA, opB) ==
    LET r == transform(opA, opB)
    IN  <<[r[1] EXCEPT !.op_id = opA.op_id], [r[2] EXCEPT !.op_id = opB.op_id]>>

\* the two argument objects when transform returns: every assignment of
\* transform is to A or B, the copies made first, never to opA or opB
transform_args(opA, opB) == <<opA, opB>>

(* ---------------------------- DocumentModel ---------------------------- *)

\* DocumentModel.__init__
DocumentModel(initial_text) == [text |-> initial_text, version |-> 0]

\* apply_operation with the version incremented before the kind is looked at
apply_operation_counts_first(doc, op) ==
    IF op.op_type = "insert" THEN
        [text |-> SliceTo(doc.text, op.position) \o op.text
                      \o SliceFrom(doc.text, op.position),
         version |-> doc.version + 1, raised |-> FALSE]
    ELSE IF op.op_type = "delete" THEN
        [text |-> SliceTo(doc.text, op.position)
                      \o SliceFrom(doc.text, op.position + op.length),
         version |-> doc.version + 1, raised |-> FALSE]
    ELSE [text |-> doc.text, version |-> doc.version + 1, raised |-> TRUE]

\* DocumentModel.apply_operation: the document after the call and whether
\* the call raised (ValueError, before anything is assigned)
apply_operation(doc, op) ==
    IF op.op_type = "insert" THEN
        [text |-> SliceTo(doc.text, op.position) \o op.text
                      \o SliceFrom(doc.text, op.position),
         version |-> doc.version + 1, raised |-> FALSE]
    ELSE IF op.op_type = "delete" THEN
        [text |-> SliceTo(doc.text, op.position)
                      \o SliceFrom(doc.text, op.position + op.length),
         version |-> doc.version + 1, raised |-> FALSE]
    ELSE [text |-> doc.text, version |-> doc.version, raised |-> TRUE]

(* ------------------------------ OTServer ------------------------------- *)

VARIABLES
    document,   \* OTServer.document: [text, version]
    history,    \* OTServer.history: the operations applied, in order
    tasks,      \* the tasks client_op created, in creation order:
                \* [op, pc, exc], exc the exception that ended the task
    emitted,    \* the ot_update payloads handed to sio.emit, in call order
    commits,    \* per history entry: the task that committed it and the
                \* unseen_ops it was rebased against (a record of the run)
    law         \* the transform law check: [stage, doc, A, B, ...]

vars == <<document, history, tasks, emitted, commits, law>>

server_vars == <<document, history, tasks, emitted, commits>>

\* the text a client inserts
InsertTexts == {<<"a", "b">>}

\* the lengths a client deletes: one character, more than one
DeleteLengths == {1, 2}

\* the base_version values a client sends: a version the server has
\* published (0 .. version), one it never produced (version + 1) and a
\* negative one
BaseVersions == -1 .. document.version + 1

\* the client_op messages with a position in positions: data["op_type"],
\* data["position"], data.get("text", ""), data.get("length", 0),
\* data["base_version"]
MessagesAt(positions) ==
    [op_type : {"insert"}, position : positions, text : InsertTexts,
     length : {0}, base_version : BaseVersions]
    \cup
    [op_type : {"delete"}, position : positions, text : {<<>>},
     length : DeleteLengths, base_version : BaseVersions]
    \cup
    [op_type : {"replace"}, position : {0}, text : {<<>>},
     length : {0}, base_version : BaseVersions]

\* the messages of clients editing the head of the text
Messages == MessagesAt(0 .. MaxPos)

\* the messages of clients editing the tail of the initial text
TailMessages ==
    MessagesAt(Len(InitialText) - 1 - MaxPos .. Len(InitialText) - 1)

\* the slice as read before the latest commit to history
unseen_ops_stale(h, base_version) ==
    SliceFrom(SubSeq(h, 1, Len(h) - 1), base_version)

\* self.history[op.base_version:]
unseen_ops(h, base_version) == SliceFrom(h, base_version)

RECURSIVE rebase(_, _)
\* for old_op in unseen_ops: op, _ = transform(op, old_op)
rebase(op, unseen) ==
    IF unseen = <<>> THEN op
    ELSE rebase(transform(op, Head(unseen))[1], Tail(unseen))

RECURSIVE rebase_leaves(_, _)
\* the objects of unseen_ops as the loop leaves them: each old_op has been
\* the second argument of one transform call
rebase_leaves(op, unseen) ==
    IF unseen = <<>> THEN <<>>
    ELSE <<transform_args(op, Head(unseen))[2]>>
             \o rebase_leaves(transform(op, Head(unseen))[1], Tail(unseen))

\* the Operation object the task was created with, as the loop leaves it:
\* it is the first argument of the first transform call only, the name op
\* is rebound to the returned A' after that
incoming_after(op, unseen) ==
    IF unseen = <<>> THEN op ELSE transform_args(op, Head(unseen))[1]

\* a payload whose new_version is the version read before the operation
\* was applied
update_payload_version_before(op, doc) ==
    [opId |-> op.op_id, op_type |-> op.op_type, position |-> op.position,
     text |-> op.text, length |-> op.length, new_version |-> doc.version - 1]

\* the update_payload dict of handle_incoming_operation
update_payload(op, doc) ==
    [opId |-> op.op_id, op_type |-> op.op_type, position |-> op.position,
     text |-> op.text, length |-> op.length, new_version |-> doc.version]

\* the tasks the event loop has not started yet
Scheduled == {i \in DOMAIN tasks : tasks[i].pc = "scheduled"}

\* the event loop starts tasks in the order create_task was called
NextTask == CHOOSE i \in Scheduled : \A j \in Scheduled : i <= j

\* OTServer.__init__ and the module state of main.py
Init ==
    /\ document = DocumentModel(InitialText)
    /\ history = <<>>
    /\ tasks = <<>>
    /\ emitted = <<>>
    /\ commits = <<>>
    /\ law = [stage |-> "off"]

\* client_op: build the Operation from the message and create the task;
\* the opId of the message is the number of the message
client_op(data) ==
    /\ Len(tasks) < MaxOps
    /\ tasks' = Append(tasks,
           [op |-> Operation(data.op_type, data.position, data.text,
                             data.length, data.base_version, Len(tasks) + 1),
            pc |-> "scheduled", exc |-> ""])
    /\ UNCHANGED <<document, history, emitted, commits, law>>

\* self.history.append(op)
history_append(h, op) == Append(h, op)

\* a broadcast that overtakes the ones before it
emit_overtaking(log, payload) == <<payload>> \o log

\* sio.emit('ot_update', update_payload): the call joins the broadcasts
\* the transport was handed, in call order
emit(log, payload) == Append(log, payload)

\* handle_incoming_operation appending the operation as it came in
\* instead of the rebased one
handle_incoming_operation_appends_incoming(i) ==
    LET unseen == unseen_ops(history, tasks[i].op.base_version)
        op == rebase(tasks[i].op, unseen)
        held == SliceTo(history, tasks[i].op.base_version)
                    \o rebase_leaves(tasks[i].op, unseen)
        incoming == incoming_after(tasks[i].op, unseen)
        r == apply_operation(document, op)
        doc == [text |-> r.text, version |-> r.version]
    IN  /\ document' = doc
        /\ IF r.raised
           THEN /\ history' = held
                /\ tasks' = [tasks EXCEPT ![i].op = incoming,
                                          ![i].pc = "raised",
                                          ![i].exc = "ValueError"]
                /\ UNCHANGED <<emitted, commits, law>>
           ELSE /\ history' = history_append(held, tasks[i].op)
                /\ emitted' = emit(emitted, update_payload(op, doc))
                /\ commits' = Append(commits, [task |-> i, unseen |-> unseen])
                /\ tasks' = [tasks EXCEPT ![i].op = incoming,
                                          ![i].pc = "emitting"]
                /\ UNCHANGED law

\* handle_incoming_operation from its start to the await of sio.emit:
\* slice, rebase, apply, append, build the payload, call sio.emit.
\* held is self.history as the rebase loop leaves its entries, incoming
\* the Operation object of the task after the loop.
\* No await lies between these, so no other task runs in between.
\* apply_operation raising ends the task there with the exception.
handle_incoming_operation(i) ==
    LET unseen == unseen_ops(history, tasks[i].op.base_version)
        op == rebase(tasks[i].op, unseen)
        held == SliceTo(history, tasks[i].op.base_version)
                    \o rebase_leaves(tasks[i].op, unseen)
        incoming == incoming_after(tasks[i].op, unseen)
        r == apply_operation(document, op)
        doc == [text |-> r.text, version |-> r.version]
    IN  /\ document' = doc
        /\ IF r.raised
           THEN /\ history' = held
                /\ tasks' = [tasks EXCEPT ![i].op = incoming,
                                          ![i].pc = "raised",
                                          ![i].exc = "ValueError"]
                /\ UNCHANGED <<emitted, commits, law>>
           ELSE /\ history' = history_append(held, op)
                /\ emitted' = emit(emitted, update_payload(op, doc))
                /\ commits' = Append(commits, [task |-> i, unseen |-> unseen])
                /\ tasks' = [tasks EXCEPT ![i].op = incoming,
                                          ![i].pc = "emitting"]
                /\ UNCHANGED law

\* the event loop runs the first task it has not started
RunTask ==
    /\ Scheduled # {}
    /\ handle_incoming_operation(NextTask)

\* sio.emit returns and the task ends
EmitReturn ==
    \E i \in DOMAIN tasks :
        /\ tasks[i].pc = "emitting"
        /\ tasks' = [tasks EXCEPT ![i].pc = "done"]
        /\ UNCHANGED <<document, history, emitted, commits, law>>

Receive == \E data \in Messages : client_op(data)

Next == Receive \/ RunTask \/ EmitReturn

Spec == Init /\ [][Next]_vars

\* the same server with the clients editing the tail of the text
ReceiveTail == \E data \in TailMessages : client_op(data)

NextTail == ReceiveTail \/ RunTask \/ EmitReturn

SpecTail == Init /\ [][NextTail]_vars

(* ------------------------- the transform law --------------------------- *)
(* transform as a function of two operations authored against one base    *)
(* document: the inputs are drawn in InitLaw, LawTransform calls          *)
(* transform and LawApply applies the four orders to the base document.   *)

\* the characters of the base documents, all different
LawAlphabet == <<"p", "q", "r", "s", "t", "u", "v", "w">>

\* the base documents
LawDocs == {SubSeq(LawAlphabet, 1, n) : n \in 0 .. MaxDocLen}

\* the inserted texts
LawTexts == {<<"X">>, <<"Y", "Z">>}

\* the operations valid against text d: an insert at 0 .. len(d), a delete
\* of a non-empty range inside d; op_id tells the two operations apart
ValidOps(d, id) ==
    {Operation("insert", p, t, 0, 0, id) : p \in 0 .. Len(d), t \in LawTexts}
    \cup
    UNION {{Operation("delete", p, <<>>, n, 0, id) : n \in 1 .. Len(d) - p} :
           p \in 0 .. Len(d)}

\* the text after applying first op1, then op2 to text d
ApplyBoth(d, op1, op2) ==
    apply_operation(apply_operation(DocumentModel(d), op1), op2).text

InitLaw ==
    /\ document = DocumentModel(InitialText)
    /\ history = <<>>
    /\ tasks = <<>>
    /\ emitted = <<>>
    /\ commits = <<>>
    /\ \E d \in LawDocs : \E a \in ValidOps(d, 1) : \E b \in ValidOps(d, 2) :
           law = [stage |-> "input", doc |-> d, A |-> a, B |-> b]

\* (A', B') = transform(A, B), the arguments after the call, and the
\* call with the arguments the other way round
LawTransform ==
    /\ law.stage = "input"
    /\ LET r == transform(law.A, law.B)
       IN  law' = [stage |-> "transformed", doc |-> law.doc,
                   A |-> law.A, B |-> law.B, Ap |-> r[1], Bp |-> r[2],
                   args |-> transform_args(law.A, law.B),
                   swapped |-> transform(law.B, law.A)]
    /\ UNCHANGED server_vars

\* the base document after B then A', A then B', A' then B, B' then A
LawApply ==
    /\ law.stage = "transformed"
    /\ law' = [stage |-> "applied", doc |-> law.doc,
               A |-> law.A, B |-> law.B, Ap |-> law.Ap, Bp |-> law.Bp,
               args |-> law.args, swapped |-> law.swapped,
               B_Ap |-> ApplyBoth(law.doc, law.B, law.Ap),
               A_Bp |-> ApplyBoth(law.doc, law.A, law.Bp),
               Ap_B |-> ApplyBoth(law.doc, law.Ap, law.B),
               Bp_A |-> ApplyBoth(law.doc, law.Bp, law.A)]
    /\ UNCHANGED server_vars

NextLaw == LawTransform \/ LawApply

SpecLaw == InitLaw /\ [][NextLaw]_vars

(* ---------------------- apply_operation on its own --------------------- *)
(* apply_operation as a function of a document and one operation, the     *)
(* operation inside the text or not: InitApply draws the inputs and       *)
(* ApplyCall makes the call on a fresh DocumentModel.                     *)

\* the inserts and deletes at a position from one before the text to one
\* past its end, with a length up to one more than the text has
AnyOps(d) ==
    {Operation("insert", p, t, 0, 0, 1) :
         p \in -1 .. Len(d) + 1, t \in LawTexts}
    \cup
    {Operation("delete", p, <<>>, n, 0, 1) :
         p \in -1 .. Len(d) + 1, n \in 1 .. Len(d) + 1}

InitApply ==
    /\ document = DocumentModel(InitialText)
    /\ history = <<>>
    /\ tasks = <<>>
    /\ emitted = <<>>
    /\ commits = <<>>
    /\ \E d \in LawDocs : \E o \in AnyOps(d) :
           law = [stage |-> "call", doc |-> d, op |-> o]

\* DocumentModel(doc).apply_operation(op)
ApplyCall ==
    /\ law.stage = "call"
    /\ law' = [stage |-> "returned", doc |-> law.doc, op |-> law.op,
               after |-> apply_operation(DocumentModel(law.doc), law.op)]
    /\ UNCHANGED server_vars

NextApply == ApplyCall

SpecApply == InitApply /\ [][NextApply]_vars

(* ------------------------------- claims -------------------------------- *)

\* C1: for every base document and every pair of operations A, B valid
\* against it, with (A', B') = transform(A, B), applying B then A' gives
\* the same text as applying A then B'.
C1_TransformConverges ==
    law.stage = "applied" => law.B_Ap = law.A_Bp

\* the operation the client submitted that became history entry k
Submitted(k) == tasks[commits[k].task].op

\* the 0-based character indices a delete removes
DeleteRange(op) == op.position .. op.position + op.length - 1

\* the characters of s whose 0-based index is not in gone, in order
RemoveIndices(s, gone) ==
    LET keep == {i \in 1 .. Len(s) : (i - 1) \notin gone}
        nth(k) == CHOOSE i \in keep : Cardinality({j \in keep : j <= i}) = k
    IN  [k \in 1 .. Cardinality(keep) |-> s[nth(k)]]

\* op is a delete of a non-empty range inside text s
ValidDelete(op, s) ==
    /\ op.op_type = "delete"
    /\ op.position >= 0
    /\ op.length >= 1
    /\ op.position + op.length <= Len(s)

\* the first two history entries were submitted as valid deletes against
\* version 0 and their ranges overlap
OverlappingDeletesCommitted ==
    /\ Len(history) = 2
    /\ Submitted(1).base_version = 0
    /\ Submitted(2).base_version = 0
    /\ ValidDelete(Submitted(1), InitialText)
    /\ ValidDelete(Submitted(2), InitialText)
    /\ DeleteRange(Submitted(1)) \cap DeleteRange(Submitted(2)) # {}

\* C2: when two overlapping deletes authored against the same base version
\* are reconciled one after the other, the final text is the base text with
\* exactly the union of the two ranges removed.
C2_OverlappingDeletesRemoveUnion ==
    OverlappingDeletesCommitted =>
        document.text = RemoveIndices(InitialText,
            DeleteRange(Submitted(1)) \cup DeleteRange(Submitted(2)))

\* task i runs handle_incoming_operation in this step
Handles(i) == tasks[i].pc = "scheduled" /\ tasks'[i].pc # "scheduled"

\* C3: an operation whose base_version is greater than the current version
\* yields a StaleVersionViolation error and leaves the text, the version
\* and the history unchanged.
C3_FutureBaseVersionRejected ==
    [][\A i \in DOMAIN tasks :
          Handles(i) /\ tasks[i].op.base_version > document.version =>
              /\ tasks'[i].exc = "StaleVersionViolation"
              /\ document' = document
              /\ history' = history]_vars

\* the tasks whose operation was applied
Applied == {i \in DOMAIN tasks : tasks[i].pc \in {"emitting", "done"}}

\* the tasks that ended with an exception
Failed == {i \in DOMAIN tasks : tasks[i].pc = "raised"}

\* C4: in every reachable state, whatever tasks ran and failed,
\* document.version equals the number of operations applied and equals
\* len(history).
C4_VersionCountsApplied ==
    /\ document.version = Cardinality(Applied)
    /\ document.version = Len(history)

\* operations were applied, one task failed and one is suspended in emit
C4_Witness ==
    /\ Failed # {}
    /\ \E i \in Applied : tasks[i].pc = "emitting"
    /\ document.version >= 1

\* C5: the ot_update broadcast of every reconciled operation carries the
\* op_id the client submitted with it, rebased or not.  Stated for the
\* runs in which every base_version is a version the server had reached.
C5_BroadcastCarriesOpId ==
    (\A j \in DOMAIN tasks : tasks[j].op.base_version \in 0 .. j - 1) =>
        \A k \in DOMAIN emitted : emitted[k].opId = Submitted(k).op_id

\* C6: the slice, rebase, apply and append of one call never interleave
\* with those of another: every history[v] was rebased against exactly
\* the entries history[base_version .. v-1] (k = v + 1 counts from 1).
C6_RebasedAgainstUnseenSlice ==
    \A k \in DOMAIN history :
        LET base == Submitted(k).base_version
            slice == SubSeq(history, base + 1, k - 1)
        IN  base \in 0 .. k - 1 =>
                /\ commits[k].unseen = slice
                /\ history[k] = rebase(Submitted(k), slice)

\* the first task is suspended in sio.emit while the second, created
\* against version 0, has been rebased over the first and committed
C6_Witness ==
    /\ Len(history) = 2
    /\ Submitted(2).base_version = 0
    /\ commits[2].unseen = <<history[1]>>
    /\ tasks[commits[1].task].pc = "emitting"
    /\ tasks[commits[2].task].pc = "emitting"

\* the edit an ot_update payload carries is the edit of operation op
SameEdit(payload, op) ==
    /\ payload.op_type = op.op_type
    /\ payload.position = op.position
    /\ payload.text = op.text
    /\ payload.length = op.length

\* C7: an ot_update is emitted exactly once for each reconciled operation
\* and none for a failed one, and the broadcasts are in the order of the
\* commits to history, whatever tasks are in flight.
C7_BroadcastsFollowHistory ==
    /\ Len(emitted) = Cardinality(Applied)
    /\ Len(emitted) = Len(history)
    /\ \A k \in DOMAIN emitted : SameEdit(emitted[k], history[k])

\* two different edits were committed and broadcast while both tasks are
\* still suspended in sio.emit
C7_Witness ==
    /\ Len(emitted) = 2
    /\ ~SameEdit(emitted[1], history[2])
    /\ \A i \in DOMAIN tasks : tasks[i].pc = "emitting"

RECURSIVE Replay(_, _)
\* the document after applying the operations of h in order to doc
Replay(doc, h) ==
    IF h = <<>> THEN doc
    ELSE LET r == apply_operation(doc, Head(h))
         IN  Replay([text |-> r.text, version |-> r.version], Tail(h))

\* C8: applying history[0], ..., history[version-1] in order to the
\* initial text reproduces exactly the current text.
C8_HistoryReplaysToText ==
    Replay(DocumentModel(InitialText), history).text = document.text

\* the second entry was moved by the rebase before it was applied
C8_Witness ==
    /\ Len(history) = 2
    /\ commits[2].unseen # <<>>
    /\ history[2].position # Submitted(2).position

\* C9: the version increases by exactly 1 on every successful
\* reconciliation, is unchanged by every failed one (and by every other
\* step), and never decreases.
C9_VersionMonotone ==
    [][/\ document'.version >= document.version
       /\ \A i \in DOMAIN tasks :
              /\ Handles(i) /\ tasks'[i].pc = "emitting" =>
                     document'.version = document.version + 1
              /\ Handles(i) /\ tasks'[i].pc = "raised" =>
                     document'.version = document.version
       /\ (\A i \in DOMAIN tasks : ~Handles(i)) =>
              document'.version = document.version]_vars

\* one reconciliation succeeded and one failed
C9_Witness ==
    /\ Cardinality(Applied) = 1
    /\ Cardinality(Failed) = 1
    /\ document.version = 1

\* C10: an operation with a negative base_version yields a
\* MalformedOperation error, is rebased against nothing and not applied:
\* the text, the version and the history are unchanged.
C10_NegativeBaseVersionRejected ==
    [][\A i \in DOMAIN tasks :
          Handles(i) /\ tasks[i].op.base_version < 0 =>
              /\ tasks'[i].exc = "MalformedOperation"
              /\ document' = document
              /\ history' = history
              /\ commits' = commits]_vars

\* op.position or op.position + op.length lies outside [0, len(text)]
OutOfBounds(op, text) ==
    \/ op.position < 0
    \/ op.position > Len(text)
    \/ op.position + op.length < 0
    \/ op.position + op.length > Len(text)

\* C11: apply_operation fails, leaving text and version unchanged, whenever
\* op.position or op.position + op.length lies outside [0, len(text)].
C11_OutOfBoundsRejected ==
    law.stage = "returned" /\ OutOfBounds(law.op, law.doc) =>
        /\ law.after.raised
        /\ law.after.text = law.doc
        /\ law.after.version = 0

\* both operations of the law check are inserts
InsertPair == law.A.op_type = "insert" /\ law.B.op_type = "insert"

TextAt(v) == Replay(DocumentModel(InitialText), SubSeq(history, 1, v)).text

\* op is within the bounds of text: its position in [0, len(text)] and,
\* for a delete, position + length <= len(text)
InBounds(op, text) ==
    /\ op.position >= 0
    /\ op.position <= Len(text)
    /\ op.op_type = "delete" => op.position + op.length <= Len(text)

\* every submitted operation is an insert or a delete with a base_version
\* the server had reached when it handled it and is within the bounds of
\* the document as it was at that version
AllSubmissionsValid ==
    /\ \A i \in DOMAIN tasks :
          /\ tasks[i].op.op_type \in {"insert", "delete"}
          /\ tasks[i].op.base_version \in 0 .. Len(history)
          /\ InBounds(tasks[i].op, TextAt(tasks[i].op.base_version))
    /\ \A k \in DOMAIN history : Submitted(k).base_version <= k - 1

\* C13: if every submitted operation has 0 <= base_version <= version and
\* is within the bounds of the document at its base_version, every rebased
\* operation that was applied was within the bounds of the text it was
\* applied to.
C13_RebasedOperationInBounds ==
    AllSubmissionsValid =>
        \A k \in DOMAIN history : InBounds(history[k], TextAt(k - 1))

\* history entry k is an insert valid at version k - 2, rebased over the
\* one entry before it, a valid delete authored against the same version
\* that starts strictly before the insert position
InsertOverEarlierDelete(k) ==
    /\ k >= 2
    /\ Submitted(k).op_type = "insert"
    /\ Submitted(k).base_version = k - 2
    /\ Submitted(k - 1).base_version = k - 2
    /\ InBounds(Submitted(k), TextAt(k - 2))
    /\ ValidDelete(Submitted(k - 1), TextAt(k - 2))
    /\ Submitted(k - 1).position < Submitted(k).position

\* C14: an insert rebased over a committed delete of the same base that
\* starts strictly before it moves left by min(insert.position -
\* delete.position, delete.length): onto the delete's start from inside
\* the deleted range, by the whole length from at or after its end; the
\* result lies in [0, len(current text)].
C14_InsertMovesLeftOverDelete ==
    \A k \in DOMAIN history :
        InsertOverEarlierDelete(k) =>
            LET ins == Submitted(k)
                del == Submitted(k - 1)
                gap == ins.position - del.position
            IN  /\ history[k].position =
                       ins.position - (IF gap < del.length THEN gap ELSE del.length)
                /\ gap < del.length => history[k].position = del.position
                /\ gap >= del.length =>
                       history[k].position = ins.position - del.length
                /\ history[k].position \in 0 .. Len(TextAt(k - 1))

\* an insert point inside the deleted range was moved onto its start
C14_Witness ==
    /\ Len(history) = 2
    /\ InsertOverEarlierDelete(2)
    /\ Submitted(2).position - Submitted(1).position < Submitted(1).length
    /\ history[2].position = Submitted(1).position

\* transform has returned in the law check
Transformed == law.stage \in {"transformed", "applied"}

\* the two operations of the law check are of the same kind at the same
\* position
Tie ==
    /\ law.A.op_type = law.B.op_type
    /\ law.A.position = law.B.position

DisjointDeletes ==
    /\ law.A.op_type = "delete"
    /\ law.B.op_type = "delete"
    /\ DeleteRange(law.A) \cap DeleteRange(law.B) = {}

\* operation q has the position and the length of operation op
SamePlace(q, op) == q.position = op.position /\ q.length = op.length

\* C16: for two deletes with disjoint ranges transform returns both with
\* position and length unchanged, and applying B then A' gives the same
\* text as applying A then B': the base text with both ranges removed.
C16_DisjointDeletesUnchangedAndCorrect ==
    law.stage = "applied" /\ DisjointDeletes =>
        /\ SamePlace(law.Ap, law.A)
        /\ SamePlace(law.Bp, law.B)
        /\ law.B_Ap = law.A_Bp
        /\ law.A_Bp = RemoveIndices(law.doc,
               DeleteRange(law.A) \cup DeleteRange(law.B))

\* C17: an insert A rebased over a committed insert B of the same base is
\* left unchanged if B is at a strictly greater position and is shifted
\* right by the length of B's text if B is at a strictly lower one; for
\* every pair of inserts, B then A' and A then B' give the same text.
C17_InsertOverInsert ==
    law.stage = "applied" /\ InsertPair =>
        /\ law.B.position > law.A.position =>
               /\ law.Ap.position = law.A.position
               /\ law.Ap.text = law.A.text
        /\ law.B.position < law.A.position =>
               /\ law.Ap.position = law.A.position + Len(law.B.text)
               /\ law.Ap.text = law.A.text
        /\ law.Ap.op_type = "insert"
        /\ law.B_Ap = law.A_Bp

\* an insert was shifted right over a two-character insert before it
C17_Witness ==
    /\ law.stage = "applied"
    /\ InsertPair
    /\ law.B.position < law.A.position
    /\ Len(law.B.text) = 2
    /\ law.Ap.position = law.A.position + 2


\* C18: an operation whose kind is neither insert nor delete is rejected
\* by handle_incoming_operation at any base_version: the task ends with
\* the exception, text, version and history are unchanged and no
\* ot_update is broadcast for it.
C18_UnknownKindRejected ==
    [][\A i \in DOMAIN tasks :
          Handles(i) /\ tasks[i].op.op_type \notin {"insert", "delete"} =>
              /\ tasks'[i].pc = "raised"
              /\ document' = document
              /\ history' = history
              /\ emitted' = emitted]_vars

\* an operation of unknown kind with a base_version outside the history
\* was handled after another operation had been committed
C18_Witness ==
    /\ Len(tasks) >= 2
    /\ tasks[2].pc = "raised"
    /\ tasks[2].op.op_type = "replace"
    /\ tasks[2].op.base_version \notin 0 .. 1
    /\ Len(history) = 1
    /\ Len(emitted) = 1


C20_NewVersionIsHistoryIndex ==
    /\ Len(emitted) = Len(history)
    /\ \A k \in DOMAIN history :
          /\ SameEdit(emitted[k], history[k])
          /\ emitted[k].new_version = k

\* two tasks are suspended in sio.emit at once, their broadcasts carrying
\* versions 1 and 2
C20_Witness ==
    /\ Len(tasks) >= 2
    /\ tasks[1].pc = "emitting"
    /\ tasks[2].pc = "emitting"
    /\ emitted[1].new_version = 1
    /\ emitted[2].new_version = 2
    /\ document.version = 2

====
